---- MODULE Spec2Model ----
(***************************************************************************)
(* Model of llm-gcode: STEP model -> cylinder profile -> Fanuc lathe NC.   *)
(*                                                                         *)
(*   proto/stp_to_profile.py   stp_to_profile and its helpers              *)
(*   proto/fanuc_lathe.py      _pass_diameters, generate_cylinder_nc       *)
(*                                                                         *)
(* Numbers.  The program computes with floats and rounds to three decimal  *)
(* places (round(v, 3), f"{v:.3f}").  The model is fixed point: a number   *)
(* is an integer count of units, Grid units make 0.001 mm, so that values  *)
(* finer than the third decimal exist and rounding is not the identity.    *)
(* Binary floating-point representation error is not modelled.             *)
(*                                                                         *)
(* Two specifications share the module:                                    *)
(*   Spec         one call of generate_cylinder_nc(profile, params)        *)
(*   SpecProfile  one call of stp_to_profile(stp_path)                     *)
(***************************************************************************)
EXTENDS Integers, Sequences, FiniteSets, TLC

VARIABLES
    \* ---- generate_cylinder_nc ----
    profile,      \* argument: CylinderProfile (length, diameter)
    params,       \* argument: TurnParams
    finish_d,     \* local, line 46
    stock_d,      \* local, line 47
    start_d,      \* local, line 48
    z_end,        \* local, line 49
    target,       \* _pass_diameters local, line 38
    d,            \* _pass_diameters local, lines 37/40
    diameters,    \* _pass_diameters local list, lines 36/41
    rough_diams,  \* local, line 51 (the planner's return value)
    ri,           \* position of "for d in rough_diams", line 75
    lines,        \* local list of emitted instructions, line 52
    pc,           \* control point of generate_cylinder_nc
    \* ---- stp_to_profile ----
    HAVE_OCC,     \* module flag, lines 18-26
    step_points,  \* the CARTESIAN_POINT triples present in the file
    pts,          \* _parse_points_fallback result
    bounds,       \* (xmin, xmax, ymin, ymax, zmin, zmax)
    ret,          \* CylinderProfile returned by stp_to_profile
    err,          \* exception raised by stp_to_profile, "" if none
    ppc           \* control point of stp_to_profile

gvars == <<profile, params, finish_d, stock_d, start_d, z_end, target, d,
           diameters, rough_diams, ri, lines, pc>>
pvars == <<HAVE_OCC, step_points, pts, bounds, ret, err, ppc>>
vars  == <<profile, params, finish_d, stock_d, start_d, z_end, target, d,
           diameters, rough_diams, ri, lines, pc,
           HAVE_OCC, step_points, pts, bounds, ret, err, ppc>>

----------------------------------------------------------------------------
(* Bounds of the explored inputs (units; Grid units = 0.001 mm).           *)

MaxDiameter    == 6   \* profile.diameter ranges over 0..MaxDiameter
MaxStockAllow  == 5   \* params.stock_allow ranges over 0..MaxStockAllow
MaxFinishAllow == 3   \* params.finish_allow ranges over 0..MaxFinishAllow
MaxRoughStep   == 6   \* params.rough_step ranges over -1..MaxRoughStep
MaxLoop        == 3   \* iterations explored of a pass loop that never ends
MaxPoints      == 2   \* CARTESIAN_POINT entries in the file: 0..MaxPoints

----------------------------------------------------------------------------
(* Fixed-point arithmetic.                                                 *)

\* units per 0.001 mm: the resolution below the third decimal
Grid == 5

\* v thousandths of a millimetre, in units
U(v) == v * Grid

\* round(v, 3): to the nearest multiple of 0.001 (Grid is odd: no ties)
Round3(v) ==
    LET r == v % Grid
    IN  IF 2 * r < Grid THEN v - r ELSE v - r + Grid

\* f"{ax}{v:.3f}": a word rendered with three decimals
Fmt3(ax, v) == [ax |-> ax, val |-> Round3(v), dec |-> 3]

\* a word written literally in the source with dec decimals ("Z0.", "X-1.0"),
\* or an integer rendered as is ("S1200")
Lit(ax, v, dec) == [ax |-> ax, val |-> v, dec |-> dec]

\* one emitted instruction: program phase, mnemonic text, numeric words
Instr(ph, cmd, words) == [ph |-> ph, cmd |-> cmd, words |-> words]

----------------------------------------------------------------------------
(* Inputs of generate_cylinder_nc.                                         *)

\* TurnParams(): the dataclass defaults
TurnParams ==
    [rpm |-> 1200, f_rough |-> U(200), f_finish |-> U(100), f_face |-> U(100),
     f_part |-> U(50), stock_allow |-> U(1000), finish_allow |-> U(200),
     rough_step |-> U(1000), safe_z |-> U(3000), cutoff_extra |-> U(1500)]

\* the knobs no pass plan depends on: the defaults, or values finer than 0.001
OtherParams ==
    { [rpm |-> 1200, f_rough |-> U(200), f_finish |-> U(100), f_face |-> U(100),
       f_part |-> U(50), safe_z |-> U(3000), cutoff_extra |-> U(1500)],
      [rpm |-> 900, f_rough |-> 1003, f_finish |-> 502, f_face |-> 499,
       f_part |-> 251, safe_z |-> 12, cutoff_extra |-> 7] }

ParamsSet ==
    { [rpm |-> o.rpm, f_rough |-> o.f_rough, f_finish |-> o.f_finish,
       f_face |-> o.f_face, f_part |-> o.f_part, stock_allow |-> sa,
       finish_allow |-> fa, rough_step |-> rs, safe_z |-> o.safe_z,
       cutoff_extra |-> o.cutoff_extra] :
         o \in OtherParams, sa \in 0..MaxStockAllow, fa \in 0..MaxFinishAllow,
         rs \in (0 - 1)..MaxRoughStep } \cup {TurnParams}

\* CylinderProfile arguments (axis and bbox are not read by the generator);
\* the last one is the profile of the documented example, 50 x 20 mm
ProfileSet ==
    { [length |-> l, diameter |-> dm] : l \in {0, 8}, dm \in 0..MaxDiameter }
        \cup { [length |-> U(50000), diameter |-> U(20000)] }

----------------------------------------------------------------------------
(* The instruction blocks of generate_cylinder_nc, in source order.        *)

\* lines 56-67
SetupLines ==
    << Instr("setup", "%", <<>>),
       Instr("setup", "O0001", <<>>),
       Instr("setup", "G21", <<>>),
       Instr("setup", "G18", <<>>),
       Instr("setup", "G40", <<>>),
       Instr("setup", "G80", <<>>),
       Instr("setup", "G97", <<>>),
       Instr("setup", "G0T0101", <<>>),
       Instr("setup", "G97S_M03", << Lit("S", params.rpm, 0) >>),
       Instr("setup", "G0G54X_Z_M8",
             << Fmt3("X", start_d), Fmt3("Z", params.safe_z) >>) >>

\* lines 70-72
FacingLines ==
    << Instr("facing", "G99G1Z_F_",
             << Lit("Z", 0, 0), Fmt3("F", params.f_face) >>),
       Instr("facing", "X_", << Lit("X", 0, 0) >>),
       Instr("facing", "G0X_Z_",
             << Fmt3("X", start_d), Fmt3("Z", params.safe_z) >>) >>

\* RoughLines with a cut that also moves X (a tapered pass)
RoughLines_Tapered(dd) ==
    << Instr("roughing", "G0X_Z_",
             << Fmt3("X", dd), Fmt3("Z", params.safe_z) >>),
       Instr("roughing", "G1X_Z_F_",
             << Fmt3("X", dd - params.rough_step), Fmt3("Z", z_end),
                Fmt3("F", params.f_rough) >>),
       Instr("roughing", "G0Z_", << Fmt3("Z", params.safe_z) >>) >>

\* lines 76-78: the body of "for d in rough_diams"
RoughLines(dd) ==
    << Instr("roughing", "G0X_Z_",
             << Fmt3("X", dd), Fmt3("Z", params.safe_z) >>),
       Instr("roughing", "G1Z_F_",
             << Fmt3("Z", z_end), Fmt3("F", params.f_rough) >>),
       Instr("roughing", "G0Z_", << Fmt3("Z", params.safe_z) >>) >>

\* FinishLines with the final diameter taken one more step below the last
\* roughing diameter instead of from finish_d
FinishLines_FromLastPass ==
    << Instr("finishing", "G0X_Z_",
             << Fmt3("X", finish_d + params.finish_allow),
                Fmt3("Z", params.safe_z) >>),
       Instr("finishing", "G1Z_F_",
             << Fmt3("Z", z_end), Fmt3("F", params.f_finish) >>),
       Instr("finishing", "G1X_",
             << Fmt3("X", (IF rough_diams = <<>> THEN stock_d
                           ELSE rough_diams[Len(rough_diams)])
                          - params.rough_step) >>),
       Instr("finishing", "G0Z_", << Fmt3("Z", params.safe_z) >>) >>

\* lines 81-84
FinishLines ==
    << Instr("finishing", "G0X_Z_",
             << Fmt3("X", finish_d + params.finish_allow),
                Fmt3("Z", params.safe_z) >>),
       Instr("finishing", "G1Z_F_",
             << Fmt3("Z", z_end), Fmt3("F", params.f_finish) >>),
       Instr("finishing", "G1X_", << Fmt3("X", finish_d) >>),
       Instr("finishing", "G0Z_", << Fmt3("Z", params.safe_z) >>) >>

\* lines 85-87
RetractLines ==
    << Instr("retract", "G28U_V_W_M05",
             << Lit("U", 0, 0), Lit("V", 0, 0), Lit("W", 0, 0) >>),
       Instr("retract", "T0100", <<>>),
       Instr("retract", "M01", <<>>) >>

\* lines 90-97; part_z is line 92, "X-1.0" is one literal decimal
PartingLines ==
    LET part_z == z_end - params.cutoff_extra
    IN  << Instr("parting", "G0T0303", <<>>),
           Instr("parting", "G97S_M03", << Lit("S", params.rpm, 0) >>),
           Instr("parting", "G0G54X_Z_",
                 << Fmt3("X", start_d), Fmt3("Z", part_z) >>),
           Instr("parting", "G1X_F_",
                 << Lit("X", 0 - U(1000), 1), Fmt3("F", params.f_part) >>),
           Instr("parting", "G0Z_", << Fmt3("Z", params.safe_z) >>),
           Instr("parting", "G28U_V_W_M05",
                 << Lit("U", 0, 0), Lit("V", 0, 0), Lit("W", 0, 0) >>),
           Instr("parting", "T0300", <<>>) >>

\* lines 98-99
EndLines ==
    << Instr("end", "M30", <<>>), Instr("end", "%", <<>>) >>

----------------------------------------------------------------------------
(* generate_cylinder_nc(profile, params), one step per block or iteration. *)

\* lines 46-49, and the entry of _pass_diameters (lines 36-38)
Enter ==
    /\ pc = "call"
    /\ finish_d' = Round3(profile.diameter)
    /\ stock_d' = Round3(finish_d' + params.stock_allow * 2)
    /\ start_d' = Round3(stock_d' + U(2000))
    /\ z_end' = 0 - Round3(profile.length)
    /\ diameters' = <<>>
    /\ d' = stock_d'
    /\ target' = finish_d' + params.finish_allow
    /\ pc' = "plan"
    /\ UNCHANGED <<profile, params, rough_diams, ri, lines>>

\* lines 39-41: one iteration of "while d - rough_step > target".  With
\* rough_step <= 0 the loop never ends; MaxLoop iterations of it are explored.
PassLoop ==
    /\ pc = "plan"
    /\ d - params.rough_step > target
    /\ params.rough_step > 0 \/ Len(diameters) < MaxLoop
    /\ d' = d - params.rough_step
    /\ diameters' = Append(diameters, Round3(d'))
    /\ UNCHANGED <<profile, params, finish_d, stock_d, start_d, z_end, target,
                   rough_diams, ri, lines, pc>>

\* lines 39, 42 and 51-53: the loop exits, the list is returned
PassReturn ==
    /\ pc = "plan"
    /\ ~(d - params.rough_step > target)
    /\ rough_diams' = diameters
    /\ lines' = <<>>
    /\ pc' = "setup"
    /\ UNCHANGED <<profile, params, finish_d, stock_d, start_d, z_end, target,
                   d, diameters, ri>>

Setup ==
    /\ pc = "setup"
    /\ lines' = lines \o SetupLines
    /\ pc' = "facing"
    /\ UNCHANGED <<profile, params, finish_d, stock_d, start_d, z_end, target,
                   d, diameters, rough_diams, ri>>

Facing ==
    /\ pc = "facing"
    /\ lines' = lines \o FacingLines
    /\ ri' = 1
    /\ pc' = "rough"
    /\ UNCHANGED <<profile, params, finish_d, stock_d, start_d, z_end, target,
                   d, diameters, rough_diams>>

\* RoughPass with the finishing block emitted inside the loop body
RoughPass_FinishInsideLoop ==
    /\ pc = "rough"
    /\ ri <= Len(rough_diams)
    /\ lines' = lines \o RoughLines(rough_diams[ri]) \o FinishLines
    /\ ri' = ri + 1
    /\ UNCHANGED <<profile, params, finish_d, stock_d, start_d, z_end, target,
                   d, diameters, rough_diams, pc>>

\* lines 75-78: one iteration of "for d in rough_diams"
RoughPass ==
    /\ pc = "rough"
    /\ ri <= Len(rough_diams)
    /\ lines' = lines \o RoughLines(rough_diams[ri])
    /\ ri' = ri + 1
    /\ UNCHANGED <<profile, params, finish_d, stock_d, start_d, z_end, target,
                   d, diameters, rough_diams, pc>>

Finishing ==
    /\ pc = "rough"
    /\ ri > Len(rough_diams)
    /\ lines' = lines \o FinishLines
    /\ pc' = "retract"
    /\ UNCHANGED <<profile, params, finish_d, stock_d, start_d, z_end, target,
                   d, diameters, rough_diams, ri>>

Retract ==
    /\ pc = "retract"
    /\ lines' = lines \o RetractLines
    /\ pc' = "parting"
    /\ UNCHANGED <<profile, params, finish_d, stock_d, start_d, z_end, target,
                   d, diameters, rough_diams, ri>>

Parting ==
    /\ pc = "parting"
    /\ lines' = lines \o PartingLines
    /\ pc' = "end"
    /\ UNCHANGED <<profile, params, finish_d, stock_d, start_d, z_end, target,
                   d, diameters, rough_diams, ri>>

\* lines 98-101: the end marker, and the program is returned
End ==
    /\ pc = "end"
    /\ lines' = lines \o EndLines
    /\ pc' = "returned"
    /\ UNCHANGED <<profile, params, finish_d, stock_d, start_d, z_end, target,
                   d, diameters, rough_diams, ri>>

\* stp_to_profile is not running while the generator is checked
ProfilerIdle ==
    /\ HAVE_OCC = FALSE
    /\ step_points = <<>>
    /\ pts = <<>>
    /\ bounds = <<>>
    /\ ret = <<>>
    /\ err = ""
    /\ ppc = "idle"

Init ==
    /\ profile \in ProfileSet
    /\ params \in ParamsSet
    /\ finish_d = 0
    /\ stock_d = 0
    /\ start_d = 0
    /\ z_end = 0
    /\ target = 0
    /\ d = 0
    /\ diameters = <<>>
    /\ rough_diams = <<>>
    /\ ri = 0
    /\ lines = <<>>
    /\ pc = "call"
    /\ ProfilerIdle

Next ==
    \/ Enter /\ UNCHANGED pvars
    \/ PassLoop /\ UNCHANGED pvars
    \/ PassReturn /\ UNCHANGED pvars
    \/ Setup /\ UNCHANGED pvars
    \/ Facing /\ UNCHANGED pvars
    \/ RoughPass /\ UNCHANGED pvars
    \/ Finishing /\ UNCHANGED pvars
    \/ Retract /\ UNCHANGED pvars
    \/ Parting /\ UNCHANGED pvars
    \/ End /\ UNCHANGED pvars

Spec == Init /\ [][Next]_vars

----------------------------------------------------------------------------
(* stp_to_profile(stp_path).                                               *)

\* coordinate values of the explored models
Coords == {0, 1, 3}

Points == Coords \X Coords \X Coords

\* the files explored: the sequence of CARTESIAN_POINT triples the pattern of
\* _parse_points_fallback finds in the text, none up to MaxPoints of them
StepFiles == UNION { [1..n -> Points] : n \in 0..MaxPoints }

\* the boxes the geometry kernel may report for a solid (min <= max)
OccBoxes ==
    { b \in Coords \X Coords \X Coords \X Coords \X Coords \X Coords :
        b[1] <= b[2] /\ b[3] <= b[4] /\ b[5] <= b[6] }

Min(S) == CHOOSE m \in S : \A v \in S : m <= v
Max(S) == CHOOSE m \in S : \A v \in S : m >= v

\* _bbox_from_points: per-coordinate min and max over the points
_bbox_from_points(points) ==
    LET xs == { points[i][1] : i \in DOMAIN points }
        ys == { points[i][2] : i \in DOMAIN points }
        zs == { points[i][3] : i \in DOMAIN points }
    IN  << Min(xs), Max(xs), Min(ys), Max(ys), Min(zs), Max(zs) >>

\* _extents_to_profile taking the smaller of the two radial extents
_extents_to_profile_MinRadial(b) ==
    LET dx == b[2] - b[1]
        dy == b[4] - b[3]
        dz == b[6] - b[5]
        axis == IF dx >= dy /\ dx >= dz THEN "x"
                ELSE IF dy >= dz THEN "y" ELSE "z"
        length == CASE axis = "x" -> dx [] axis = "y" -> dy [] OTHER -> dz
        radial_dims == CASE axis = "x" -> {dy, dz}
                         [] axis = "y" -> {dx, dz}
                         [] OTHER      -> {dx, dy}
    IN  [length |-> length, diameter |-> Min(radial_dims), axis |-> axis,
         bbox |-> b]

\* _extents_to_profile: max(dims, key=dims.get) returns the first key, in the
\* insertion order x, y, z, whose extent is maximal
_extents_to_profile(b) ==
    LET dx == b[2] - b[1]
        dy == b[4] - b[3]
        dz == b[6] - b[5]
        axis == IF dx >= dy /\ dx >= dz THEN "x"
                ELSE IF dy >= dz THEN "y" ELSE "z"
        length == CASE axis = "x" -> dx [] axis = "y" -> dy [] OTHER -> dz
        radial_dims == CASE axis = "x" -> {dy, dz}
                         [] axis = "y" -> {dx, dz}
                         [] OTHER      -> {dx, dy}
    IN  [length |-> length, diameter |-> Max(radial_dims), axis |-> axis,
         bbox |-> b]

\* lines 102-103 and _bbox_from_occ, the read succeeding: the kernel's box
OccBox ==
    /\ ppc = "call"
    /\ HAVE_OCC
    /\ \E b \in OccBoxes : bounds' = b
    /\ ppc' = "bbox"
    /\ UNCHANGED <<HAVE_OCC, step_points, pts, ret, err>>

\* _bbox_from_occ lines 45-47: the read fails
OccReadFailed ==
    /\ ppc = "call"
    /\ HAVE_OCC
    /\ err' = "RuntimeError"
    /\ ppc' = "raised"
    /\ UNCHANGED <<HAVE_OCC, step_points, pts, bounds, ret>>

\* lines 107-108 and _parse_points_fallback: the points, or RuntimeError
ParsePointsFallback ==
    /\ ppc = "call"
    /\ ~HAVE_OCC
    /\ pts' = step_points
    /\ IF step_points = <<>>
       THEN err' = "RuntimeError" /\ ppc' = "raised"
       ELSE err' = err /\ ppc' = "parsed"
    /\ UNCHANGED <<HAVE_OCC, step_points, bounds, ret>>

\* line 109
BboxFromPoints ==
    /\ ppc = "parsed"
    /\ bounds' = _bbox_from_points(pts)
    /\ ppc' = "bbox"
    /\ UNCHANGED <<HAVE_OCC, step_points, pts, ret, err>>

\* lines 104 and 110
ExtentsToProfile ==
    /\ ppc = "bbox"
    /\ ret' = _extents_to_profile(bounds)
    /\ ppc' = "returned"
    /\ UNCHANGED <<HAVE_OCC, step_points, pts, bounds, err>>

\* generate_cylinder_nc is not running while the profiler is checked
GeneratorIdle ==
    /\ profile = [length |-> 0, diameter |-> 0]
    /\ params = TurnParams
    /\ finish_d = 0
    /\ stock_d = 0
    /\ start_d = 0
    /\ z_end = 0
    /\ target = 0
    /\ d = 0
    /\ diameters = <<>>
    /\ rough_diams = <<>>
    /\ ri = 0
    /\ lines = <<>>
    /\ pc = "idle"

\* with the kernel present the text of the file is never scanned
InitProfile ==
    /\ HAVE_OCC \in BOOLEAN
    /\ step_points \in (IF HAVE_OCC THEN {<<>>} ELSE StepFiles)
    /\ pts = <<>>
    /\ bounds = <<>>
    /\ ret = <<>>
    /\ err = ""
    /\ ppc = "call"
    /\ GeneratorIdle

NextProfile ==
    \/ OccBox /\ UNCHANGED gvars
    \/ OccReadFailed /\ UNCHANGED gvars
    \/ ParsePointsFallback /\ UNCHANGED gvars
    \/ BboxFromPoints /\ UNCHANGED gvars
    \/ ExtentsToProfile /\ UNCHANGED gvars

SpecProfile == InitProfile /\ [][NextProfile]_vars

----------------------------------------------------------------------------
(* Properties.                                                             *)

Phases == <<"setup", "facing", "roughing", "finishing", "retract",
            "parting", "end">>

PhaseRank(ph) == CHOOSE i \in 1..Len(Phases) : Phases[i] = ph

\* the instructions of one phase, in program order
Block(ph) == SelectSeq(lines, LAMBDA l : l.ph = ph)

\* the planner has returned and the generator is emitting or has returned
Emitting == pc \in {"setup", "facing", "rough", "retract", "parting", "end",
                    "returned"}

AfterFinishing == pc \in {"retract", "parting", "end", "returned"}

\* C1: for rough_step > 0 the planned diameters are strictly decreasing, each
\* strictly below the stock diameter and strictly above
\* finish_diameter + finish_allow.
C1_StrictlyDecreasingWithinBounds ==
    (pc \in {"plan"} \cup {"setup", "facing", "rough", "retract", "parting",
                            "end", "returned"} /\ params.rough_step > 0) =>
        /\ \A i \in 1..Len(diameters) :
              /\ diameters[i] < stock_d
              /\ diameters[i] > finish_d + params.finish_allow
        /\ \A i \in 1..(Len(diameters) - 1) : diameters[i] > diameters[i + 1]

\* C2: for rough_step > 0 the planner returns as many passes as there are
\* k >= 1 with stock_d - k*rough_step > finish_d + finish_allow, the k-th at
\* stock_d - k*rough_step; the documented example plans one pass, at 21.000.
C2_PassCountAndPositions ==
    (Emitting /\ params.rough_step > 0) =>
        LET tgt == finish_d + params.finish_allow
            span == IF stock_d > tgt THEN stock_d - tgt ELSE 0
            K == { k \in 1..span : stock_d - k * params.rough_step > tgt }
        IN  /\ Len(rough_diams) = Cardinality(K)
            /\ \A k \in 1..Len(rough_diams) :
                  rough_diams[k] = stock_d - k * params.rough_step
            /\ (params = TurnParams /\ profile.diameter = U(20000)) =>
                  rough_diams = << U(21000) >>

\* C3: with rough_step <= 0 the generator raises before it plans a pass or
\* appends an instruction, and never returns a program.
C3_NonPositiveStepRejected ==
    params.rough_step <= 0 =>
        /\ diameters = <<>>
        /\ lines = <<>>
        /\ pc # "returned"

\* C4: the instructions appear in the phase order setup, facing, roughing,
\* finishing, retract, parting, end, each phase one contiguous block; a
\* returned program holds every phase, roughing only when passes are planned.
C4_PhaseOrder ==
    /\ \A i \in 1..(Len(lines) - 1) :
          PhaseRank(lines[i].ph) <= PhaseRank(lines[i + 1].ph)
    /\ pc = "returned" =>
          { lines[i].ph : i \in 1..Len(lines) } =
              { Phases[i] : i \in 1..Len(Phases) } \
                  (IF rough_diams = <<>> THEN {"roughing"} ELSE {})

C4_Witness == pc = "returned" /\ Len(rough_diams) >= 2

\* C5: the finishing block is: rapid to X = finish_d + finish_allow (as
\* rendered, three decimals), feed along Z to z_end, feed to
\* X = round(profile.diameter, 3), retract; the last feed move's X depends on
\* profile.diameter alone.
C5_FinishingBlock ==
    AfterFinishing =>
        LET fb == Block("finishing")
        IN  /\ Len(fb) = 4
            /\ fb[1].cmd = "G0X_Z_"
            /\ fb[1].words[1] =
                  [ax |-> "X", dec |-> 3,
                   val |-> Round3(Round3(profile.diameter)
                                    + params.finish_allow)]
            /\ fb[2].cmd = "G1Z_F_"
            /\ fb[2].words[1] =
                  [ax |-> "Z", dec |-> 3, val |-> 0 - Round3(profile.length)]
            /\ fb[3].cmd = "G1X_"
            /\ fb[3].words =
                  << [ax |-> "X", dec |-> 3,
                      val |-> Round3(profile.diameter)] >>
            /\ fb[4].cmd = "G0Z_"
            /\ \A i \in 1..Len(fb[4].words) : fb[4].words[i].ax # "X"

C5_Witness ==
    /\ pc = "returned"
    /\ rough_diams # <<>>
    /\ profile.diameter % Grid # 0
    /\ params.rough_step % Grid # 0
    /\ params.stock_allow % Grid # 0

\* C6: the returned profile's axis is a dimension of maximal extent, its
\* length that extent, its diameter the larger of the two other extents, and
\* so length >= diameter.
C6_AxisLengthDiameter ==
    ppc = "returned" =>
        LET ext == [a \in {"x", "y", "z"} |->
                      CASE a = "x" -> bounds[2] - bounds[1]
                        [] a = "y" -> bounds[4] - bounds[3]
                        [] OTHER   -> bounds[6] - bounds[5]]
            others == {"x", "y", "z"} \ {ret.axis}
        IN  /\ ret.axis \in {"x", "y", "z"}
            /\ \A a \in {"x", "y", "z"} : ext[a] <= ext[ret.axis]
            /\ ret.length = ext[ret.axis]
            /\ \A a \in others : ext[a] <= ret.diameter
            /\ \E a \in others : ext[a] = ret.diameter
            /\ ret.length >= ret.diameter

C6_Witness ==
    /\ ppc = "returned"
    /\ ret.axis = "y"
    /\ ret.diameter = bounds[6] - bounds[5]
    /\ bounds[2] - bounds[1] < ret.diameter
    /\ ret.diameter < ret.length

\* C7: no profile is returned for an empty point set or a box with an extent
\* <= 0: every returned profile has length > 0 and diameter > 0.
C7_NoDegenerateProfile ==
    ppc = "returned" =>
        /\ bounds[2] - bounds[1] > 0
        /\ bounds[4] - bounds[3] > 0
        /\ bounds[6] - bounds[5] > 0
        /\ ret.length > 0
        /\ ret.diameter > 0

\* C8: when the stock diameter does not exceed finish_d + finish_allow the
\* generator raises and produces no program text.
C8_StockNotAboveTargetRejected ==
    (Emitting /\ stock_d <= finish_d + params.finish_allow) =>
        /\ lines = <<>>
        /\ pc # "returned"

\* C9: the roughing block holds three instructions per planned diameter, in
\* the planner's order: rapid to X = the diameter at Z = safe_z, feed to
\* Z = z_end = -round(profile.length, 3) at the rough feed with no X word,
\* rapid to Z = safe_z; it is empty when no diameter is planned.
C9_RoughingBlock ==
    Emitting =>
        LET rb == Block("roughing")
            n == CASE pc \in {"setup", "facing"} -> 0
                   [] pc = "rough" -> ri - 1
                   [] OTHER -> Len(rough_diams)
            safe == [ax |-> "Z", dec |-> 3, val |-> Round3(params.safe_z)]
        IN  /\ Len(rb) = 3 * n
            /\ \A k \in 1..n :
                  /\ rb[3 * k - 2].cmd = "G0X_Z_"
                  /\ rb[3 * k - 2].words =
                        << [ax |-> "X", dec |-> 3, val |-> rough_diams[k]],
                           safe >>
                  /\ rb[3 * k - 1].cmd = "G1Z_F_"
                  /\ rb[3 * k - 1].words =
                        << [ax |-> "Z", dec |-> 3,
                            val |-> 0 - Round3(profile.length)],
                           [ax |-> "F", dec |-> 3,
                            val |-> Round3(params.f_rough)] >>
                  /\ rb[3 * k].cmd = "G0Z_"
                  /\ rb[3 * k].words = << safe >>

C9_Witness ==
    /\ pc = "returned"
    /\ Len(rough_diams) >= 2
    /\ Len(Block("roughing")) = 3 * Len(rough_diams)
    /\ profile.length % Grid # 0

\* C10: every X, Z, U, V, W and F word of every instruction is rendered with
\* exactly three decimal places.
C10_ThreeDecimalsEverywhere ==
    \A i \in 1..Len(lines) :
        \A j \in 1..Len(lines[i].words) :
            lines[i].words[j].ax \in {"X", "Z", "U", "V", "W", "F"} =>
                lines[i].words[j].dec = 3

====
